---- MODULE Spec2Model ----
(***************************************************************************)
(* dnspin (src/src/github.com/nyaruka/dnspin/dnspin.go): a poll loop that  *)
(* looks every configured host up against its own DNS server and merges    *)
(* the answers into the managed region of /etc/hosts.                      *)
(*                                                                         *)
(* Text is modelled as a sequence of tokens.  A token is a piece of text   *)
(* without white space ("10.0.0.1", "a", "#"), or one white-space          *)
(* character (" " or "\t").  A line is a sequence of tokens, a file is a   *)
(* sequence of lines.                                                      *)
(***************************************************************************)
EXTENDS Integers, Sequences, FiniteSets, TLC

VARIABLES
    conf,             \* dnspin.conf: whether it can be opened, and its lines
    hosts,            \* main: hosts []*host_config
    pc,               \* position of the single thread of main
    i,                \* main: index of the host the lookup loop is at
    etc_hosts,        \* the lines of /etc/hosts
    tmp,              \* the temporary file of ioutil.TempFile
    pre_lines,        \* writeHostsFile: pre_lines
    post_lines,       \* writeHostsFile: post_lines
    current_mappings, \* writeHostsFile: current_mappings
    wrote,            \* writeHostsFile: result wrote
    err,              \* writeHostsFile / loadHostConfig: result err ("nil" or the failed step)
                      \* of loadHostConfig: "open" for os.Open, "input" for a line
    old,              \* history: /etc/hosts as it was when the cycle began
    conf_err,         \* loadHostConfig: the line number in its error, 0 when the
                      \* error is nil or names no line
    same,             \* history: every lookup of this cycle so far repeated the
                      \* outcome of the previous cycle, which ended without error
    fresh,            \* history: the outcomes of the lookups of this cycle, in order
    good              \* history: per host entry, the address a cycle wrote after a
                      \* successful lookup when every later cycle failed to look
                      \* the host up and ended without error; NIL otherwise

vars == <<conf, hosts, pc, i, etc_hosts, tmp, pre_lines, post_lines,
          current_mappings, wrote, err, old, conf_err, same, fresh, good>>

----------------------------------------------------------------------------
(* Bounds of the model *)

\* the longest initial /etc/hosts, in lines
MaxLen == 4

\* the longest managed region of an initial /etc/hosts that is one region
MaxRegion == 2

----------------------------------------------------------------------------
(* Constants of the program *)

NIL == <<"NIL">>
ERROR == <<"ERROR">>
MISSING == <<"MISSING">>

DNSPIN_BEGIN == <<"#", "#", "#", " ", "DNSPIN", " ", "BEGIN", " ", "#", "#", "#">>
DNSPIN_END == <<"#", "#", "#", " ", "DNSPIN", " ", "END", " ", "#", "#", "#", "#", "#">>

PRE_PIN == 0
IN_PIN == 1
POST_PIN == 2

----------------------------------------------------------------------------
(* Inputs *)

\* the addresses a DNS server may answer with
IPs == {<<"10.0.0.1">>, <<"10.0.0.2">>}

\* the lines of dnspin.conf as the operator may have written it
ConfFiles ==
    { << <<"a", " ", "s1">>, <<"b", " ", "s2">> >>,
      << <<"a", " ", "s1">>, <<"a", " ", "s2">> >>,
      << <<"#", " ", "pins">>, <<>>, <<"a", "\t", "s1">> >>,
      << <<"#", " ", "pins">>, <<"a", " ", "s1">>, <<"a", " ", "b", " ", "c">> >> }

\* lines /etc/hosts may hold before dnspin first runs
FilePool ==
    { DNSPIN_BEGIN,
      DNSPIN_END,
      <<"10.0.0.1", "\t", "a">>,
      <<"127.0.0.1", " ", "localhost">> }

InitFiles == UNION { [1..n -> FilePool] : n \in 0..MaxLen }

\* configurations of two hosts, in either order, and one that does not load
OrderConfs ==
    { << <<"a", " ", "s1">>, <<"b", " ", "s2">> >>,
      << <<"b", " ", "s2">>, <<"a", " ", "s1">> >>,
      << <<"a", " ", "s1">>, <<"b">> >> }

\* mapping lines a managed region may hold for these hosts
RegionPool == { <<"10.0.0.1", "\t", "a">>, <<"10.0.0.2", "\t", "b">> }

\* /etc/hosts that is a managed region of these lines, in any order
OrderFiles ==
    { <<DNSPIN_BEGIN>> \o r \o <<DNSPIN_END>> :
        r \in UNION { [1..n -> RegionPool] : n \in 0..MaxRegion } }

----------------------------------------------------------------------------
(* strings *)

IsSpace(c) == c \in {" ", "\t"}

\* strings.HasPrefix(line, "#")
HasPrefix(line, c) == Len(line) > 0 /\ line[1] = c

\* strings.Fields: the maximal runs of non-white-space tokens, in order
RECURSIVE FieldsFrom(_, _, _, _)
FieldsFrom(line, k, cur, acc) ==
    IF k > Len(line)
    THEN IF cur = <<>> THEN acc ELSE Append(acc, cur)
    ELSE IF IsSpace(line[k])
         THEN FieldsFrom(line, k + 1, <<>>, IF cur = <<>> THEN acc ELSE Append(acc, cur))
         ELSE FieldsFrom(line, k + 1, Append(cur, line[k]), acc)

Fields(line) == FieldsFrom(line, 1, <<>>, <<>>)

----------------------------------------------------------------------------
(* lookupIP *)

\* the values main stores for one lookup: an address, MISSING, or ERROR on err != nil
LookupOutcomes == IPs \cup {MISSING, ERROR}

----------------------------------------------------------------------------
(* loadHostConfig *)

host_config(hostname, dns_server, ip_address) ==
    [hostname |-> hostname, dns_server |-> dns_server, ip_address |-> ip_address]

\* dnspin.conf in the working directory: absent or unreadable, or a file of lines
NoConf == [exists |-> FALSE, lines |-> <<>>]
Conf(lines) == [exists |-> TRUE, lines |-> lines]

\* the scan loop: [hosts, err, lineno] with err "nil", or "input" and the number
\* of the line in the message
RECURSIVE LoadFrom(_, _, _)
LoadFrom(lines, lineno, acc) ==
    IF lineno > Len(lines)
    THEN [hosts |-> acc, err |-> "nil", lineno |-> 0]
    ELSE LET line == lines[lineno]
         IN IF Len(line) > 0 /\ ~HasPrefix(line, "#")
            THEN LET fields == Fields(line)
                 IN IF Len(fields) # 2
                    THEN [hosts |-> acc, err |-> "input", lineno |-> lineno]
                    ELSE LoadFrom(lines, lineno + 1,
                                  Append(acc, host_config(fields[1], fields[2], NIL)))
            ELSE LoadFrom(lines, lineno + 1, acc)

\* a slip: a best-effort load that skips the lines it cannot split in two
RECURSIVE LoadLenientFrom(_, _, _)
LoadLenientFrom(lines, lineno, acc) ==
    IF lineno > Len(lines)
    THEN [hosts |-> acc, err |-> "nil", lineno |-> 0]
    ELSE LET fields == Fields(lines[lineno])
         IN IF Len(lines[lineno]) > 0 /\ ~HasPrefix(lines[lineno], "#") /\ Len(fields) = 2
            THEN LoadLenientFrom(lines, lineno + 1,
                                 Append(acc, host_config(fields[1], fields[2], NIL)))
            ELSE LoadLenientFrom(lines, lineno + 1, acc)

loadHostConfigLenient(f) ==
    IF ~f.exists
    THEN [hosts |-> <<>>, err |-> "open", lineno |-> 0]
    ELSE LoadLenientFrom(f.lines, 1, <<>>)

\* os.Open fails: the empty hosts and its error; otherwise the scan loop
loadHostConfig(f) ==
    IF ~f.exists
    THEN [hosts |-> <<>>, err |-> "open", lineno |-> 0]
    ELSE LoadFrom(f.lines, 1, <<>>)

----------------------------------------------------------------------------
(* writeHostsFile: reading /etc/hosts *)

\* a slip: an end sentinel counts only inside the region, elsewhere it is a line
ScanLineEndOnlyInside(st, line) ==
    IF line = DNSPIN_BEGIN THEN [st EXCEPT !.location = IN_PIN]
    ELSE IF line = DNSPIN_END /\ st.location = IN_PIN THEN [st EXCEPT !.location = POST_PIN]
    ELSE IF st.location = PRE_PIN THEN [st EXCEPT !.pre_lines = Append(@, line)]
    ELSE IF st.location = IN_PIN
         THEN IF ~HasPrefix(line, "#")
              THEN [st EXCEPT !.pin_lines = Append(@, line)]
              ELSE st
    ELSE [st EXCEPT !.pin_lines = Append(st.post_lines, line)]

\* one iteration of the scanner loop
ScanLine(st, line) ==
    IF line = DNSPIN_BEGIN THEN [st EXCEPT !.location = IN_PIN]
    ELSE IF line = DNSPIN_END THEN [st EXCEPT !.location = POST_PIN]
    ELSE IF st.location = PRE_PIN THEN [st EXCEPT !.pre_lines = Append(@, line)]
    ELSE IF st.location = IN_PIN
         THEN IF ~HasPrefix(line, "#")
              THEN [st EXCEPT !.pin_lines = Append(@, line)]
              ELSE st
    ELSE \* POST_PIN: pin_lines = append(post_lines, line)
         [st EXCEPT !.pin_lines = Append(st.post_lines, line)]

RECURSIVE ScanFrom(_, _, _)
ScanFrom(lines, k, st) ==
    IF k > Len(lines) THEN st ELSE ScanFrom(lines, k + 1, ScanLine(st, lines[k]))

ScanFile(lines) ==
    ScanFrom(lines, 1, [location |-> PRE_PIN, pre_lines |-> <<>>,
                        pin_lines |-> <<>>, post_lines |-> <<>>])

\* current_mappings[fields[1]] = fields[0] for every line of two fields
RECURSIVE ParseFrom(_, _, _)
ParseFrom(lines, k, m) ==
    IF k > Len(lines) THEN m
    ELSE LET fields == Fields(lines[k])
         IN IF Len(fields) = 2
            THEN ParseFrom(lines, k + 1,
                           [x \in DOMAIN m \cup {fields[2]} |->
                               IF x = fields[2] THEN fields[1] ELSE m[x]])
            ELSE ParseFrom(lines, k + 1, m)

EmptyMap == [x \in {} |-> <<>>]

\* a slip: current_mappings[fields[0]] = fields[1], the map keyed by the address
RECURSIVE ParseKeyedByIpFrom(_, _, _)
ParseKeyedByIpFrom(lines, k, m) ==
    IF k > Len(lines) THEN m
    ELSE LET fields == Fields(lines[k])
         IN IF Len(fields) = 2
            THEN ParseKeyedByIpFrom(lines, k + 1,
                                    [x \in DOMAIN m \cup {fields[1]} |->
                                        IF x = fields[1] THEN fields[2] ELSE m[x]])
            ELSE ParseKeyedByIpFrom(lines, k + 1, m)

ParseMappingsKeyedByIp(pin_lines) == ParseKeyedByIpFrom(pin_lines, 1, EmptyMap)

ParseMappings(pin_lines) == ParseFrom(pin_lines, 1, EmptyMap)

\* needs_rewrite
NeedsRewrite(cm, hs) ==
    IF Cardinality(DOMAIN cm) # Len(hs)
    THEN TRUE
    ELSE \E k \in 1..Len(hs) :
            IF hs[k].hostname \in DOMAIN cm
            THEN cm[hs[k].hostname] # hs[k].ip_address
            ELSE TRUE

----------------------------------------------------------------------------
(* writeHostsFile: the new content *)

\* a slip: the two fields of the mapping line in the order of dnspin.conf
MappingLineSwapped(ip_address, hostname) == hostname \o <<"\t">> \o ip_address

MappingLine(ip_address, hostname) == ip_address \o <<"\t">> \o hostname

CachedComment(h) ==
    <<"#", " ">> \o h.hostname
    \o <<":", " ", "cached", " ", "value,", " ", "error", " ", "during", " ",
         "lookup", " ", "to", " ">>
    \o h.dns_server

ErrorComment(h) ==
    <<"#", " ">> \o h.hostname
    \o <<":", " ", "error", " ", "during", " ", "lookup", " ", "to", " ">>
    \o h.dns_server

\* a slip: the test for MISSING is left out, so MISSING is written as an address
RenderHostNoMissingTest(h, cm) ==
    IF h.ip_address = ERROR
    THEN IF h.hostname \in DOMAIN cm
         THEN <<CachedComment(h), cm[h.hostname] \o <<"\t">> \o h.hostname>>
         ELSE <<ErrorComment(h)>>
    ELSE <<h.ip_address \o <<"\t">> \o h.hostname>>

\* a slip: after a failed lookup the cached mapping is not written again
RenderHostCommentOnly(h, cm) ==
    IF h.ip_address = ERROR
    THEN IF h.hostname \in DOMAIN cm
         THEN <<CachedComment(h)>>
         ELSE <<ErrorComment(h)>>
    ELSE IF h.ip_address # MISSING
         THEN <<h.ip_address \o <<"\t">> \o h.hostname>>
         ELSE <<>>

\* the lines written for one host
RenderHost(h, cm) ==
    IF h.ip_address = ERROR
    THEN IF h.hostname \in DOMAIN cm
         THEN <<CachedComment(h), MappingLine(cm[h.hostname], h.hostname)>>
         ELSE <<ErrorComment(h)>>
    ELSE IF h.ip_address # MISSING
         THEN <<MappingLine(h.ip_address, h.hostname)>>
         ELSE <<>>

\* a slip: the hosts are written from the last to the first
RECURSIVE RenderFromReversed(_, _, _)
RenderFromReversed(hs, k, cm) ==
    IF k > Len(hs) THEN <<>>
    ELSE RenderFromReversed(hs, k + 1, cm) \o RenderHost(hs[k], cm)

RECURSIVE RenderFrom(_, _, _)
RenderFrom(hs, k, cm) ==
    IF k > Len(hs) THEN <<>> ELSE RenderHost(hs[k], cm) \o RenderFrom(hs, k + 1, cm)

RenderHosts(hs, cm) == RenderFrom(hs, 1, cm)

\* a slip: the block is written first and the lines before it after it
NewContentBlockFirst(pre, hs, cm, post) ==
    <<DNSPIN_BEGIN>> \o RenderHosts(hs, cm) \o <<DNSPIN_END>> \o pre \o post

\* everything written through w, in order
NewContent(pre, hs, cm, post) ==
    pre \o <<DNSPIN_BEGIN>> \o RenderHosts(hs, cm) \o <<DNSPIN_END>> \o post

----------------------------------------------------------------------------
(* files *)

\* the directory of /etc/hosts, and the directory given to ioutil.TempFile
HostsDir == "/etc"
TempDir == "/tmp"

NoFile == [exists |-> FALSE, lines |-> <<>>, dir |-> TempDir]
File(lines) == [exists |-> TRUE, lines |-> lines, dir |-> TempDir]

\* a slip: the deferred os.Remove is left out
NotRemoved(f) == f

\* defer os.Remove(out.Name())
Removed(f) == NoFile

----------------------------------------------------------------------------
(* The state machine *)

\* the state of the process when main begins
InitMain ==
    /\ hosts = <<>>
    /\ pc = "load"
    /\ i = 1
    /\ tmp = NoFile
    /\ pre_lines = <<>>
    /\ post_lines = <<>>
    /\ current_mappings = EmptyMap
    /\ wrote = FALSE
    /\ err = "nil"
    /\ old = etc_hosts
    /\ same = FALSE
    /\ conf_err = 0
    /\ fresh = <<>>
    /\ good = <<>>

Init ==
    /\ conf \in {NoConf} \cup {Conf(lines) : lines \in ConfFiles}
    /\ etc_hosts \in InitFiles
    /\ InitMain

\* the start with two hosts and a file that is one managed region
InitOrder ==
    /\ conf \in {NoConf} \cup {Conf(lines) : lines \in OrderConfs}
    /\ etc_hosts \in OrderFiles
    /\ InitMain

\* where a cycle starts: the lookup loop, or writeHostsFile when there is no host
CycleStart(hs) == IF Len(hs) = 0 THEN "open" ELSE "lookup"

\* main: loadHostConfig succeeded
LoadOk ==
    /\ pc = "load"
    /\ loadHostConfig(conf).err = "nil"
    /\ hosts' = loadHostConfig(conf).hosts
    /\ pc' = CycleStart(hosts')
    /\ good' = [k \in 1..Len(hosts') |-> NIL]
    /\ UNCHANGED <<conf, i, etc_hosts, tmp, pre_lines, post_lines,
                   current_mappings, wrote, err, old, same, conf_err,
                   fresh>>

\* main: loadHostConfig failed, log.Fatalf
LoadFail ==
    /\ pc = "load"
    /\ loadHostConfig(conf).err # "nil"
    /\ hosts' = loadHostConfig(conf).hosts
    /\ err' = loadHostConfig(conf).err
    /\ conf_err' = loadHostConfig(conf).lineno
    /\ pc' = "exit"
    /\ UNCHANGED <<conf, i, etc_hosts, tmp, pre_lines, post_lines,
                   current_mappings, wrote, old, same, fresh, good>>

\* a slip: a failed lookup keeps the address remembered from the cycle before
LookupKeepsOnError ==
    /\ pc = "lookup"
    /\ i <= Len(hosts)
    /\ \E r \in LookupOutcomes :
          /\ hosts' = IF r = ERROR /\ hosts[i].ip_address \in IPs
                       THEN hosts
                       ELSE [hosts EXCEPT ![i].ip_address = r]
          /\ same' = (same /\ hosts[i].ip_address = r)
          /\ fresh' = Append(fresh, r)
    /\ i' = IF i = Len(hosts) THEN 1 ELSE i + 1
    /\ pc' = IF i = Len(hosts) THEN "open" ELSE "lookup"
    /\ UNCHANGED <<conf, etc_hosts, tmp, pre_lines, post_lines,
                   current_mappings, wrote, err, old, conf_err, good>>

\* a slip: writeHostsFile is called inside the lookup loop, after each host
LookupThenWrite ==
    /\ pc = "lookup"
    /\ i <= Len(hosts)
    /\ \E r \in LookupOutcomes :
          /\ hosts' = [hosts EXCEPT ![i].ip_address = r]
          /\ same' = (same /\ hosts[i].ip_address = r)
          /\ fresh' = Append(fresh, r)
    /\ i' = IF i = Len(hosts) THEN 1 ELSE i + 1
    /\ pc' = "open"
    /\ UNCHANGED <<conf, etc_hosts, tmp, pre_lines, post_lines,
                   current_mappings, wrote, err, old, conf_err, good>>

\* main: one iteration of the lookup loop
Lookup ==
    /\ pc = "lookup"
    /\ i <= Len(hosts)
    /\ \E r \in LookupOutcomes :
          /\ hosts' = [hosts EXCEPT ![i].ip_address = r]
          /\ same' = (same /\ hosts[i].ip_address = r)
          /\ fresh' = Append(fresh, r)
    /\ i' = IF i = Len(hosts) THEN 1 ELSE i + 1
    /\ pc' = IF i = Len(hosts) THEN "open" ELSE "lookup"
    /\ UNCHANGED <<conf, etc_hosts, tmp, pre_lines, post_lines,
                   current_mappings, wrote, err, old, conf_err, good>>

\* history: what the cycle that returns (w, e) makes of good
GoodAfter(w, e) ==
    [k \in 1..Len(hosts) |->
        IF e # "nil" THEN NIL
        ELSE IF hosts[k].ip_address = ERROR THEN good[k]
        ELSE IF w /\ hosts[k].ip_address # MISSING THEN hosts[k].ip_address
        ELSE NIL]

\* a slip: log.Fatalf instead of log.Printf when writeHostsFile returns an error
ReturnOrExit(w, e) ==
    /\ good' = GoodAfter(w, e)
    /\ wrote' = w
    /\ err' = e
    /\ pre_lines' = <<>>
    /\ post_lines' = <<>>
    /\ current_mappings' = EmptyMap
    /\ pc' = IF e = "nil" THEN "sleep" ELSE "exit"

\* writeHostsFile returns (w, e): its locals are gone, main goes to sleep
Return(w, e) ==
    /\ good' = GoodAfter(w, e)
    /\ wrote' = w
    /\ err' = e
    /\ pre_lines' = <<>>
    /\ post_lines' = <<>>
    /\ current_mappings' = EmptyMap
    /\ pc' = "sleep"

\* os.Open("/etc/hosts") fails
OpenFail ==
    /\ pc = "open"
    /\ Return(FALSE, "open")
    /\ UNCHANGED <<conf, hosts, i, etc_hosts, tmp, old, same, conf_err, fresh>>

\* the file is read and nothing has changed
ReadUnchanged ==
    /\ pc = "open"
    /\ LET st == ScanFile(etc_hosts)
       IN ~NeedsRewrite(ParseMappings(st.pin_lines), hosts)
    /\ Return(FALSE, "nil")
    /\ UNCHANGED <<conf, hosts, i, etc_hosts, tmp, old, same, conf_err, fresh>>

\* the file is read and has to be rewritten
ReadChanged ==
    /\ pc = "open"
    /\ LET st == ScanFile(etc_hosts)
       IN /\ NeedsRewrite(ParseMappings(st.pin_lines), hosts)
          /\ pre_lines' = st.pre_lines
          /\ post_lines' = st.post_lines
          /\ current_mappings' = ParseMappings(st.pin_lines)
    /\ pc' = "tempfile"
    /\ UNCHANGED <<conf, hosts, i, etc_hosts, tmp, wrote, err, old, same, conf_err,
                   fresh, good>>

\* ioutil.TempFile fails
TempFileFail ==
    /\ pc = "tempfile"
    /\ Return(FALSE, "tempfile")
    /\ UNCHANGED <<conf, hosts, i, etc_hosts, tmp, old, same, conf_err, fresh>>

\* ioutil.TempFile creates an empty file
TempFileOk ==
    /\ pc = "tempfile"
    /\ tmp' = File(<<>>)
    /\ pc' = "chmod"
    /\ UNCHANGED <<conf, hosts, i, etc_hosts, pre_lines, post_lines,
                   current_mappings, wrote, err, old, same, conf_err,
                   fresh, good>>

\* out.Chmod fails
ChmodFail ==
    /\ pc = "chmod"
    /\ tmp' = Removed(tmp)
    /\ Return(FALSE, "chmod")
    /\ UNCHANGED <<conf, hosts, i, etc_hosts, old, same, conf_err, fresh>>

ChmodOk ==
    /\ pc = "chmod"
    /\ pc' = "write"
    /\ UNCHANGED <<conf, hosts, i, etc_hosts, tmp, pre_lines, post_lines,
                   current_mappings, wrote, err, old, same, conf_err,
                   fresh, good>>

\* the writes through w up to w.Flush, which fails
FlushFail ==
    /\ pc = "write"
    /\ tmp' = Removed(tmp)
    /\ Return(FALSE, "flush")
    /\ UNCHANGED <<conf, hosts, i, etc_hosts, old, same, conf_err, fresh>>

\* the writes through w up to w.Flush, which succeeds
FlushOk ==
    /\ pc = "write"
    /\ tmp' = File(NewContent(pre_lines, hosts, current_mappings, post_lines))
    /\ pc' = "rename"
    /\ UNCHANGED <<conf, hosts, i, etc_hosts, pre_lines, post_lines,
                   current_mappings, wrote, err, old, same, conf_err,
                   fresh, good>>

\* os.Rename fails
RenameFail ==
    /\ pc = "rename"
    /\ tmp' = Removed(tmp)
    /\ Return(FALSE, "rename")
    /\ UNCHANGED <<conf, hosts, i, etc_hosts, old, same, conf_err, fresh>>

\* os.Rename moves the temporary file over /etc/hosts
RenameOk ==
    /\ pc = "rename"
    /\ etc_hosts' = tmp.lines
    /\ tmp' = NoFile
    /\ Return(TRUE, "nil")
    /\ UNCHANGED <<conf, hosts, i, old, same, conf_err, fresh>>

\* time.Sleep, then the next cycle; wrote and err are local to the loop body
Sleep ==
    /\ pc = "sleep"
    /\ pc' = CycleStart(hosts)
    /\ wrote' = FALSE
    /\ err' = "nil"
    /\ old' = etc_hosts
    /\ same' = (err = "nil")
    /\ fresh' = <<>>
    /\ UNCHANGED <<conf, hosts, i, etc_hosts, tmp, pre_lines, post_lines,
                   current_mappings, conf_err, good>>

Next ==
    \/ LoadOk
    \/ LoadFail
    \/ Lookup
    \/ OpenFail
    \/ ReadUnchanged
    \/ ReadChanged
    \/ TempFileFail
    \/ TempFileOk
    \/ ChmodFail
    \/ ChmodOk
    \/ FlushFail
    \/ FlushOk
    \/ RenameFail
    \/ RenameOk
    \/ Sleep

Spec == Init /\ [][Next]_vars

SpecOrder == InitOrder /\ [][Next]_vars

----------------------------------------------------------------------------
(* The vocabulary of the specification: the three regions of a file *)

Count(f, line) == Cardinality({k \in 1..Len(f) : f[k] = line})

BeginAt(f) == CHOOSE k \in 1..Len(f) : f[k] = DNSPIN_BEGIN
EndAt(f) == CHOOSE k \in 1..Len(f) : f[k] = DNSPIN_END

\* one begin sentinel, followed later by one end sentinel
WellFormed(f) ==
    /\ Count(f, DNSPIN_BEGIN) = 1
    /\ Count(f, DNSPIN_END) = 1
    /\ BeginAt(f) < EndAt(f)

PreOf(f) == SubSeq(f, 1, BeginAt(f) - 1)
RegionOf(f) == SubSeq(f, BeginAt(f) + 1, EndAt(f) - 1)
PostOf(f) == SubSeq(f, EndAt(f) + 1, Len(f))

IsComment(line) == HasPrefix(line, "#")

\* a comment line "# hostname: ..."
IsCommentFor(line, hostname) ==
    /\ IsComment(line)
    /\ Len(Fields(line)) >= 2
    /\ Fields(line)[2] = hostname \o <<":">>

\* a line "ip hostname" that is no comment
IsMappingFor(line, hostname) ==
    /\ ~IsComment(line)
    /\ Len(Fields(line)) = 2
    /\ Fields(line)[2] = hostname

\* PersistedMapping: hostname -> ip of the non-comment two-field lines of the region
PersistedOf(f) == ParseMappings(SelectSeq(RegionOf(f), LAMBDA l : ~IsComment(l)))

Hostnames(hs) == {hs[k].hostname : k \in 1..Len(hs)}

DistinctHostnames(hs) == Cardinality(Hostnames(hs)) = Len(hs)

AllResolved(hs) == \A k \in 1..Len(hs) : hs[k].ip_address \in IPs

\* hostname -> result of the host entries (of the last entry, for a repeated hostname)
HostMap(hs) ==
    [n \in Hostnames(hs) |->
        LET last == CHOOSE k \in 1..Len(hs) :
                       /\ hs[k].hostname = n
                       /\ \A j \in (k + 1)..Len(hs) : hs[j].hostname # n
        IN hs[last].ip_address]

\* the merged content of section 4.3: PRE, begin, rendered region, end, POST
Merged(f, hs) ==
    PreOf(f) \o <<DNSPIN_BEGIN>> \o RenderHosts(hs, PersistedOf(f))
    \o <<DNSPIN_END>> \o PostOf(f)

\* writeHostsFile has read the file and decided: hosts hold this cycle's results
Decided == pc \in {"tempfile", "chmod", "write", "rename", "sleep"}

----------------------------------------------------------------------------
(* Claims *)

\* C1 (region isolation): no step of any cycle changes the lines before the
\* begin sentinel or the lines after the end sentinel of a file that has one
\* begin sentinel followed by one end sentinel.
C1_RegionIsolation ==
    [][WellFormed(etc_hosts) =>
          /\ WellFormed(etc_hosts')
          /\ PreOf(etc_hosts') = PreOf(etc_hosts)
          /\ PostOf(etc_hosts') = PostOf(etc_hosts)]_vars

\* the managed region of f maps every configured host to the address just
\* resolved for it, and maps nothing else
RegionMatches(f, hs) ==
    /\ WellFormed(f)
    /\ DistinctHostnames(hs)
    /\ AllResolved(hs)
    /\ PersistedOf(f) = HostMap(hs)

\* C2 (idempotence): when the managed region already holds exactly the
\* resolved mapping, writeHostsFile creates no file, leaves /etc/hosts as it
\* was and returns wrote = false, whatever precedes or follows the region.
C2_Idempotence ==
    (Decided /\ RegionMatches(old, hosts)) =>
        /\ pc = "sleep"
        /\ wrote = FALSE
        /\ ~tmp.exists
        /\ etc_hosts = old

\* C3 (unchanged cycle): a cycle whose lookups all repeat the outcomes of the
\* previous cycle, which ended without error, does not write /etc/hosts.
C3_UnchangedCycle == (pc = "sleep" /\ same) => ~wrote

\* C4 (fallback): in the content written by a cycle, a host whose lookup
\* failed has its comment line followed by the mapping the region held for
\* it, or, when the region held none, comment lines and no mapping line.
C4_Fallback ==
    (pc = "rename" /\ WellFormed(old) /\ DistinctHostnames(hosts)) =>
        \A k \in 1..Len(hosts) :
            hosts[k].ip_address = ERROR =>
                LET region == RegionOf(tmp.lines)
                    pm == PersistedOf(old)
                    h == hosts[k].hostname
                IN IF h \in DOMAIN pm
                   THEN \E j \in 1..(Len(region) - 1) :
                           /\ IsCommentFor(region[j], h)
                           /\ region[j + 1] = MappingLine(pm[h], h)
                   ELSE /\ \E j \in 1..Len(region) : IsCommentFor(region[j], h)
                        /\ \A j \in 1..Len(region) : ~IsMappingFor(region[j], h)

\* C5 as claimed (omission): after a cycle that wrote the file, the managed
\* region holds no mapping line for a host whose outcome was NoRecord.
C5_Omission ==
    (pc = "sleep" /\ wrote) =>
        \A k \in 1..Len(hosts) :
            hosts[k].ip_address = MISSING =>
                \A j \in 1..Len(RegionOf(etc_hosts)) :
                    ~IsMappingFor(RegionOf(etc_hosts)[j], hosts[k].hostname)

\* every configuration entry of that hostname had the outcome NoRecord
AllMissing(hs, hostname) ==
    \A k \in 1..Len(hs) : hs[k].hostname = hostname => hs[k].ip_address = MISSING

\* C5 as amended: after a cycle that wrote the file, the managed region holds
\* no mapping line for a hostname all of whose configuration entries had the
\* outcome NoRecord, even when the previous region held a mapping for it.
C5_OmissionAmended ==
    (pc = "sleep" /\ wrote) =>
        \A k \in 1..Len(hosts) :
            AllMissing(hosts, hosts[k].hostname) =>
                \A j \in 1..Len(RegionOf(etc_hosts)) :
                    ~IsMappingFor(RegionOf(etc_hosts)[j], hosts[k].hostname)

\* C5 happens: a written cycle with a NoRecord host that the previous region mapped
C5_Witness ==
    /\ pc = "sleep"
    /\ wrote
    /\ WellFormed(old)
    /\ \E k \in 1..Len(hosts) :
          /\ AllMissing(hosts, hosts[k].hostname)
          /\ hosts[k].hostname \in DOMAIN PersistedOf(old)

\* C6 (atomicity under failure): when chmod, flush or rename fails,
\* writeHostsFile returns wrote = false with /etc/hosts as it was before the
\* cycle and the temporary file gone.
C6_AtomicityUnderFailure ==
    (pc = "sleep" /\ err \in {"chmod", "flush", "rename"}) =>
        /\ etc_hosts = old
        /\ ~tmp.exists
        /\ wrote = FALSE

\* C6 happens: the rename of a fully written temporary file has failed
C6_Witness ==
    /\ pc = "sleep"
    /\ err = "rename"
    /\ NeedsRewrite(ParseMappings(ScanFile(old).pin_lines), hosts)

\* C7 (all-or-nothing visibility): in every state /etc/hosts holds the content
\* from before the cycle or the complete merged content: pre lines, begin
\* sentinel, rendered region, end sentinel, post lines.
C7_AllOrNothing ==
    WellFormed(old) => (etc_hosts = old \/ etc_hosts = Merged(old, hosts))

\* C8 (round trip): the file written from resolved results of hosts with
\* distinct hostnames, read back as the next pass reads it, gives exactly the
\* mapping hostname -> ip of the hosts.
C8_RoundTrip ==
    (pc = "sleep" /\ wrote /\ DistinctHostnames(hosts) /\ AllResolved(hosts)) =>
        ParseMappings(ScanFile(etc_hosts).pin_lines) = HostMap(hosts)

\* C8 happens: two hosts with different addresses have been written
C8_Witness ==
    /\ pc = "sleep"
    /\ wrote
    /\ Len(hosts) = 2
    /\ DistinctHostnames(hosts)
    /\ AllResolved(hosts)
    /\ hosts[1].ip_address # hosts[2].ip_address

\* C9 (change detection): a pass without I/O error rewrites the file iff the
\* mapping persisted in the managed region differs from the host entries in
\* number, membership or value.
C9_ChangeDetection ==
    (pc = "sleep" /\ err = "nil" /\ WellFormed(old)) =>
        (wrote <=> NeedsRewrite(PersistedOf(old), hosts))

\* C10 (persisted mapping): the mapping a pass works with is the mapping of
\* the non-comment two-field lines between the sentinels, and of no other line.
C10_PersistedFromRegion ==
    (pc = "tempfile" /\ WellFormed(etc_hosts)) =>
        current_mappings = PersistedOf(etc_hosts)

\* C11 (the loop survives): the process has exited only on a configuration
\* error at startup (dnspin.conf not opened, or a malformed line), before any
\* lookup; in every other state a step is possible, and a cycle that
\* has ended, with or without error, is followed by the sleep and a new cycle.
C11_LoopSurvives ==
    /\ pc = "exit" => /\ err \in {"open", "input"}
                      /\ \A k \in 1..Len(hosts) : hosts[k].ip_address = NIL
                      /\ fresh = <<>>
                      /\ etc_hosts = old
    /\ pc # "exit" => ENABLED Next
    /\ pc = "sleep" => ENABLED Sleep

\* C11 happens: a new cycle has begun after a cycle with a failed lookup in
\* which writeHostsFile returned an error
C11_Witness ==
    /\ pc = "lookup"
    /\ fresh = <<>>
    /\ ~same
    /\ hosts[1].ip_address = ERROR

\* the host entries with the outcomes of this cycle as their results
FreshHosts == [k \in 1..Len(hosts) |-> [hosts[k] EXCEPT !.ip_address = fresh[k]]]

\* C12 (state lives in the file): what a cycle decides and leaves in
\* /etc/hosts is determined by the file as it was when the cycle began and
\* the outcomes of the lookups of this cycle, and by nothing remembered.
C12_StateOnlyInFile ==
    (pc = "sleep") =>
        LET st == ScanFile(old)
            cm == ParseMappings(st.pin_lines)
            need == NeedsRewrite(cm, FreshHosts)
        IN IF err = "nil"
           THEN /\ wrote = need
                /\ etc_hosts = IF need
                               THEN NewContent(st.pre_lines, FreshHosts, cm, st.post_lines)
                               ELSE old
           ELSE /\ ~wrote
                /\ etc_hosts = old

\* C12 happens: a cycle wrote the fallback of a failed lookup from the file
C12_Witness ==
    /\ pc = "sleep"
    /\ wrote
    /\ \E k \in 1..Len(hosts) :
          /\ fresh[k] = ERROR
          /\ hosts[k].hostname \in DOMAIN ParseMappings(ScanFile(old).pin_lines)

\* a line of dnspin.conf that is neither empty nor a comment
IsDataLine(line) == Len(line) > 0 /\ ~HasPrefix(line, "#")

\* the 1-based numbers of the lines that do not split into two fields
BadLines(lines) ==
    {n \in 1..Len(lines) : IsDataLine(lines[n]) /\ Len(Fields(lines[n])) # 2}

RECURSIVE EntriesFrom(_, _)
EntriesFrom(lines, n) ==
    IF n > Len(lines) THEN <<>>
    ELSE IF IsDataLine(lines[n])
         THEN <<[hostname |-> Fields(lines[n])[1], dns_server |-> Fields(lines[n])[2],
                 ip_address |-> NIL]>> \o EntriesFrom(lines, n + 1)
         ELSE EntriesFrom(lines, n + 1)

\* C13 (configuration load): of a dnspin.conf that was opened, with a malformed
\* line the load fails naming the number of the first such line, the process
\* exits and never takes another step, /etc/hosts untouched; otherwise the
\* entries are the data lines in file order, each with the result NIL.
C13_ConfigAllOrNothing ==
    [][/\ pc # "exit"
       /\ (pc = "load" /\ conf.exists) =>
            IF BadLines(conf.lines) # {}
            THEN /\ pc' = "exit"
                 /\ err' = "input"
                 /\ conf_err' \in BadLines(conf.lines)
                 /\ \A n \in BadLines(conf.lines) : conf_err' <= n
                 /\ etc_hosts' = etc_hosts
                 /\ tmp' = tmp
                 /\ fresh' = <<>>
            ELSE /\ pc' # "exit"
                 /\ hosts' = EntriesFrom(conf.lines, 1)]_vars

\* C13 happens: the load failed on line 3, after a comment and a good line
C13_Witness ==
    /\ pc = "exit"
    /\ conf_err = 3
    /\ BadLines(conf.lines) = {3}
    /\ ~IsDataLine(conf.lines[1])

\* C14 (temporary file beside the target): a temporary file that exists is
\* in the directory of /etc/hosts.
C14_TempBesideTarget == tmp.exists => tmp.dir = HostsDir

\* the host entries a line of the region is written for
Owners(line) ==
    {k \in 1..Len(hosts) :
        \/ IsMappingFor(line, hosts[k].hostname)
        \/ IsCommentFor(line, hosts[k].hostname)}

\* C15 (render order): in a written managed region every line belongs to a
\* host, and the lines of a host that comes earlier in dnspin.conf precede
\* the lines of every host that comes later.
C15_RenderOrder ==
    (pc = "sleep" /\ wrote) =>
        LET region == RegionOf(etc_hosts)
        IN /\ \A j \in 1..Len(region) : Owners(region[j]) # {}
           /\ \A j1, j2 \in 1..Len(region) :
                 \A k1 \in Owners(region[j1]), k2 \in Owners(region[j2]) :
                     (k1 < k2 /\ hosts[k1].hostname # hosts[k2].hostname) => j1 < j2

\* C15 happens: both hosts have lines in the written region, and the region
\* before had the line of the second host above the line of the first
C15_Witness ==
    /\ pc = "sleep"
    /\ wrote
    /\ Len(hosts) = 2
    /\ fresh[1] = ERROR
    /\ fresh[2] \in IPs
    /\ \E j1, j2 \in 1..Len(RegionOf(old)) :
          /\ j1 < j2
          /\ IsMappingFor(RegionOf(old)[j1], hosts[2].hostname)
          /\ IsMappingFor(RegionOf(old)[j2], hosts[1].hostname)

\* C16 (single managed region): after a successful write /etc/hosts has one
\* begin sentinel and one end sentinel, the begin sentinel first, whatever
\* sentinels the file had before.
C16_SingleRegion == (pc = "sleep" /\ wrote) => WellFormed(etc_hosts)

\* C16 happens: a file with two begin sentinels below an end sentinel was rewritten
C16_Witness ==
    /\ pc = "sleep"
    /\ wrote
    /\ Count(old, DNSPIN_BEGIN) = 2
    /\ Count(old, DNSPIN_END) = 1
    /\ old[1] = DNSPIN_END

NoSentinel(f) == Count(f, DNSPIN_BEGIN) = 0 /\ Count(f, DNSPIN_END) = 0

\* C17 (file without sentinels): the persisted mapping of a file without
\* sentinel is empty, and a write leaves every line of it in place, followed
\* by the begin sentinel, the lines of the hosts rendered without any cached
\* mapping, and the end sentinel as the last line.
C17_NoSentinels ==
    NoSentinel(old) =>
        /\ pc \in {"tempfile", "chmod", "write", "rename"} => current_mappings = EmptyMap
        /\ (pc = "sleep" /\ wrote) =>
              /\ SubSeq(etc_hosts, 1, Len(old)) = old
              /\ etc_hosts[Len(old) + 1] = DNSPIN_BEGIN
              /\ etc_hosts[Len(etc_hosts)] = DNSPIN_END
              /\ SubSeq(etc_hosts, Len(old) + 2, Len(etc_hosts) - 1)
                    = RenderHosts(hosts, EmptyMap)

\* C17 happens: a file of two lines, one of them a mapping of a host, without
\* sentinels, was rewritten after that host's lookup failed
C17_Witness ==
    /\ pc = "sleep"
    /\ wrote
    /\ NoSentinel(old)
    /\ Len(old) >= 2
    /\ \E j \in 1..Len(old) : IsMappingFor(old[j], hosts[1].hostname)
    /\ fresh[1] = ERROR

\* C18 (no partial cycles): /etc/hosts is read, compared and written only
\* after every host was looked up in this cycle, and every host's result is
\* then the outcome of this cycle; during the lookups the file is not touched.
C18_NoPartialCycles ==
    /\ pc \in {"open", "tempfile", "chmod", "write", "rename", "sleep"} =>
          /\ Len(fresh) = Len(hosts)
          /\ \A k \in 1..Len(hosts) :
                hosts[k].ip_address = fresh[k] /\ hosts[k].ip_address # NIL
    /\ pc = "lookup" => (etc_hosts = old /\ ~tmp.exists /\ Len(fresh) = i - 1)

\* C18 happens: the second cycle is about to write, with outcomes for both
\* hosts that differ from those of the cycle before
C18_Witness ==
    /\ pc = "rename"
    /\ Len(hosts) = 2
    /\ good[1] # NIL
    /\ fresh[1] = ERROR
    /\ fresh[2] = MISSING

\* the region of /etc/hosts holds a comment line of host entry k followed by
\* the mapping of its hostname to ip
HoldsCached(k, ip) ==
    LET region == RegionOf(etc_hosts)
        h == hosts[k].hostname
    IN \E j \in 1..(Len(region) - 1) :
          /\ IsCommentFor(region[j], h)
          /\ region[j + 1] = MappingLine(ip, h)

\* C19 as claimed (cached fallback survives): when a cycle wrote x for a host
\* after a successful lookup and every cycle since failed to look the host up
\* and ended without error, the region holds the host's comment line followed
\* by the mapping of the host to x.
C19_CachedSurvives ==
    (pc = "sleep" /\ err = "nil") =>
        \A k \in 1..Len(hosts) :
            (good[k] # NIL /\ fresh[k] = ERROR) => HoldsCached(k, good[k])

\* C19 as amended: the same, for a configuration of distinct hostnames.
C19_CachedSurvivesAmended ==
    (pc = "sleep" /\ err = "nil" /\ DistinctHostnames(hosts)) =>
        \A k \in 1..Len(hosts) :
            (good[k] # NIL /\ fresh[k] = ERROR) => HoldsCached(k, good[k])

\* C19 happens: the lookup of a host failed again, as in the cycle before,
\* after a cycle had written its address
C19_Witness ==
    /\ pc = "sleep"
    /\ err = "nil"
    /\ same
    /\ DistinctHostnames(hosts)
    /\ Len(hosts) = 2
    /\ good[1] # NIL
    /\ fresh[1] = ERROR

\* C20 (eventual quiescence): a cycle in which every host, the hostnames
\* distinct, resolves as in the cycle before, which ended without error, does
\* not write: once the answers are fixed the file is written at most in the
\* first cycle and every later cycle leaves it untouched.
C20_Quiescence ==
    (pc = "sleep" /\ err = "nil" /\ same
        /\ DistinctHostnames(hosts) /\ AllResolved(hosts)) =>
        (~wrote /\ etc_hosts = old)

\* C20 happens: two hosts resolved to different addresses, as in the cycle
\* before, in a file with lines above its region
C20_Witness ==
    /\ pc = "sleep"
    /\ err = "nil"
    /\ same
    /\ Len(hosts) = 2
    /\ DistinctHostnames(hosts)
    /\ AllResolved(hosts)
    /\ hosts[1].ip_address # hosts[2].ip_address
    /\ PreOf(etc_hosts) # <<>>

====
